---- MODULE Spec2Model ----
(***************************************************************************)
(* Model of the debug adapter server of varphi-python-dap                  *)
(* (src/src/varphi_python_dap/lib/debugger.py): the reader thread, the     *)
(* input queue, the main loop (run_event_loop), the request dispatcher     *)
(* (_handle_request and the handle_* methods), the execution controller    *)
(* (_step_machine) and the outgoing message stream (_send_message).        *)
(*                                                                         *)
(* The engine (varphi_python.lib.TuringMachine) is an external library;    *)
(* it is modelled by what the server observes of it: the pending           *)
(* instruction's line (_next_instruction), the outcome of step() and       *)
(* peek(), chosen nondeterministically, and the heads with their tapes     *)
(* that handle_variables reads.                                            *)
(***************************************************************************)
EXTENDS Integers, Sequences, FiniteSets, TLC

\* ------------------------------------------------------------------ bounds

\* Frames the client sends over the whole session.
MaxFrames == 2

\* Frames a well-behaved debugging client sends (specification SpecDebug).
MaxDebugFrames == 3

\* Engine units after which the machine has no next instruction.
MaxSteps == 2

\* Highest source line that carries an instruction.
MaxLine == 2

\* write() calls the interpreter makes on sys.stderr to print the traceback
\* of an exception that leaves run_event_loop.
MaxTraceWrites == 2

\* Frames the client sends in a session on drawn tapes (specification
\* SpecTape).
MaxTapeFrames == 2

\* Tape cells lie within TapeReach of index 0.
TapeReach == 6

\* ------------------------------------------------------------- vocabulary

\* A JSON member that is not there.
Absent == "absent"

\* A missing integer member (a request's seq).
NoSeq == -1

\* tm._next_instruction is None.
NoInstr == 0

Lines == 1..MaxLine

\* The seq the client gives its n-th frame (DAP clients number their
\* messages; the offset keeps them apart from the server's own numbers).
ClientSeq(n) == 100 + n

\* The handle_* methods of DAPServer.
Handlers ==
    {"initialize", "launch", "setBreakpoints", "configurationDone", "threads",
     "stackTrace", "scopes", "variables", "next", "stepIn", "continue",
     "pause", "disconnect", "exceptionInfo"}

\* The shapes of the "arguments" member that handle_setBreakpoints can tell
\* apart: absent (KeyError), not an object (AttributeError on .get), an
\* object without "lines" (default []), "lines" not iterable (TypeError),
\* "lines" a list.
NoArgs == [shape |-> "absent", lines |-> <<>>]

LineLists == {<<>>, <<1>>, <<2>>, <<1, 1>>}

BreakpointArgs ==
    {NoArgs,
     [shape |-> "null", lines |-> <<>>],
     [shape |-> "nolines", lines |-> <<>>],
     [shape |-> "badlines", lines |-> <<>>]}
    \cup {[shape |-> "lines", lines |-> l] : l \in LineLists}

\* A decoded frame: json is "object" or "array" (any JSON value that is not
\* an object); the other members are those _handle_request reads.
Frame(j, t, s, c, a) ==
    [json |-> j, type |-> t, seq |-> s, command |-> c, arguments |-> a]

\* Well-formed requests: every handler's command and one unknown command;
\* only setBreakpoints reads its arguments.
Requests(s) ==
    {Frame("object", "request", s, c, NoArgs) : c \in (Handlers \cup {"bogus"})}
    \cup {Frame("object", "request", s, "setBreakpoints", a) : a \in BreakpointArgs}

\* Frames with a member missing or of another type.
Malformed(s) ==
    {Frame("array", Absent, NoSeq, Absent, NoArgs),
     Frame("object", Absent, s, "threads", NoArgs),
     Frame("object", "event", s, "threads", NoArgs),
     Frame("object", "request", s, Absent, NoArgs),
     Frame("object", "request", NoSeq, "threads", NoArgs),
     Frame("object", "request", NoSeq, "pause", NoArgs),
     Frame("object", "request", NoSeq, "setBreakpoints",
           [shape |-> "lines", lines |-> <<1>>])}

AnyFrames(s) == Requests(s) \cup Malformed(s)

\* What a debugging client sends once the session is configured.
DebugFrames(s) ==
    {Frame("object", "request", s, c, NoArgs) :
        c \in {"configurationDone", "next", "continue", "pause"}}
    \cup {Frame("object", "request", s, "setBreakpoints", a) :
            a \in {[shape |-> "lines", lines |-> <<>>],
                   [shape |-> "lines", lines |-> <<1>>],
                   [shape |-> "lines", lines |-> <<2>>]}}

\* What a client sends that inspects the tapes of a machine it lets run.
TapeFrames(s) ==
    {Frame("object", "request", s, c, NoArgs) : c \in {"variables", "continue"}}

\* ------------------------------------------------------------------ tapes

\* varphi_devkit.BLANK, the symbol of a cell the tape does not hold.
BLANK == "_"

Symbols == {"a", "b"}

Cells == (0 - TapeReach)..TapeReach

\* The dict of a tape that holds 'a' at -1 and 'b' at 0.
ExampleTape == [x \in {0 - 1, 0} |-> IF x = 0 THEN "b" ELSE "a"]

\* The dict of an empty tape.
BlankTape == [x \in {} |-> BLANK]

\* head.tape._tape, a dict from cell index to symbol: the empty tape, the
\* tapes that hold one cell, and the example tape.
Tapes ==
    {BlankTape, ExampleTape}
    \cup {[x \in {c} |-> s] : c \in Cells, s \in Symbols}

\* A head of tm.heads: its index and its tape's dict.
Heads == {[index |-> c, tape |-> t] : c \in {0, 1}, t \in Tapes}

ExampleHead == [index |-> 0, tape |-> ExampleTape]

BlankHead == [index |-> 0, tape |-> BlankTape]

\* tm.heads of the machines SpecTape looks at: one tape, or two.
TapeSets == {<<h>> : h \in Heads} \cup {<<ExampleHead, h>> : h \in Heads}

\* --------------------------------------------------------------- messages

\* An outgoing message before _send_message numbers it.  Members a message
\* does not carry hold their blank value.
NoMsg ==
    [type |-> "", seq |-> 0, request_seq |-> NoSeq, command |-> "",
     success |-> FALSE, message |-> "", body |-> "", breakpoints |-> <<>>,
     line |-> NoInstr, event |-> "", reason |-> "", category |-> "",
     output |-> "", tapes |-> <<>>]

\* The part of a DAPServer the main thread works on, as one record:
\* running, step_granularity, breakpoints (the dict's keys), steps_count,
\* seq (_seq), wire (what was written to the real stdout), tm (the engine)
\* and exc, the exception in flight ("none" when there is none).
Raise(S, e) == [S EXCEPT !.exc = e]

\* Python exceptions that "except Exception" catches; SystemExit is not one.
Caught == {"KeyError: seq", "KeyError: command", "KeyError: type",
           "KeyError: arguments", "TypeError", "AttributeError"}

\* A mutation of _send_message: the counter is not advanced.
SendMessageNoIncrement(S, msg) ==
    [S EXCEPT !.wire = Append(S.wire, [msg EXCEPT !.seq = S.seq])]

\* _send_message: advance _seq, stamp the message, write it.
SendMessage(S, msg) ==
    [S EXCEPT !.seq = S.seq + 1,
              !.wire = Append(S.wire, [msg EXCEPT !.seq = S.seq + 1])]

\* _send_event.
SendEvent(S, msg) == SendMessage(S, [msg EXCEPT !.type = "event"])

Event(name) == [NoMsg EXCEPT !.event = name]

Stopped(reason) == [NoMsg EXCEPT !.event = "stopped", !.reason = reason]

Output(category, text) ==
    [NoMsg EXCEPT !.event = "output", !.category = category, !.output = text]

\* DAPStdout.write and DAPStderr.write: one output event per call.
StdoutWrite(S, text) == SendEvent(S, Output("stdout", text))

StderrWrite(S, text) == SendEvent(S, Output("stderr", text))

\* The builtin print(text) on the redirected sys.stdout: one write() of the
\* text, then one write() of the line end.
PrintStdout(S, text) == StdoutWrite(StdoutWrite(S, text), "\n")

\* _send_response: reading req["seq"] and req["command"] raises when the
\* request is not an object or lacks the member.
SendResponse(S, req, success, body, message) ==
    IF req.json # "object" THEN Raise(S, "TypeError")
    ELSE IF req.seq = NoSeq THEN Raise(S, "KeyError: seq")
    ELSE IF req.command = Absent THEN Raise(S, "KeyError: command")
    ELSE SendMessage(S, [body EXCEPT !.type = "response",
                                     !.request_seq = req.seq,
                                     !.command = req.command,
                                     !.success = success,
                                     !.message = message])

Body(tag) == [NoMsg EXCEPT !.body = tag]

\* Statement sequencing: T is what the next statement makes of S, and is
\* skipped when the statement before it raised.
Then(S, T) == IF S.exc # "none" THEN S ELSE T

\* --------------------------------------------------------------- handlers

handle_initialize(S, req) ==
    LET S1 == SendResponse(S, req, TRUE, Body("capabilities"), "")
    IN  Then(S1, SendEvent(S1, Event("initialized")))

handle_launch(S, req) == SendResponse(S, req, TRUE, NoMsg, "")

\* {ln: True for ln in lines}: the keys of the new dict.
LineSet(lines) == {lines[i] : i \in DOMAIN lines}

\* A mutation of handle_setBreakpoints: the new lines are added to the dict.
StoreBreakpointsAdding(S, lines) ==
    [S EXCEPT !.breakpoints = S.breakpoints \cup LineSet(lines)]

\* self.breakpoints = {ln: True for ln in lines}
StoreBreakpoints(S, lines) == [S EXCEPT !.breakpoints = LineSet(lines)]

\* A mutation of handle_setBreakpoints: one response entry per distinct line.
VerifiedDistinct(lines) ==
    LET F[i \in 0..Len(lines)] ==
            IF i = 0 THEN <<>>
            ELSE IF \E j \in 1..(i - 1) : lines[j] = lines[i] THEN F[i - 1]
            ELSE Append(F[i - 1], lines[i])
    IN  F[Len(lines)]

\* [{"verified": True, "line": ln} for ln in lines]: one entry per element
\* of lines, in order (each entry is written as its line).
VerifiedBps(lines) == lines

\* handle_setBreakpoints: req["arguments"].get("lines", []) raises KeyError
\* without "arguments", AttributeError when it is not an object; the dict
\* comprehension raises TypeError when "lines" is not iterable.  All of
\* these happen before self.breakpoints is assigned.
handle_setBreakpoints(S, req) ==
    LET a == req.arguments
        lines == IF a.shape = "nolines" THEN <<>> ELSE a.lines
    IN  IF a.shape = "absent" THEN Raise(S, "KeyError: arguments")
        ELSE IF a.shape = "null" THEN Raise(S, "AttributeError")
        ELSE IF a.shape = "badlines" THEN Raise(S, "TypeError")
        ELSE SendResponse(StoreBreakpoints(S, lines), req, TRUE,
                          [Body("breakpoints") EXCEPT
                              !.breakpoints = VerifiedBps(lines)], "")

handle_configurationDone(S, req) ==
    LET S1 == SendResponse(S, req, TRUE, NoMsg, "")
    IN  Then(S1, SendEvent(S1, Stopped("entry")))

handle_threads(S, req) == SendResponse(S, req, TRUE, Body("threads"), "")

\* The frame's line is the pending instruction's, 0 when there is none.
handle_stackTrace(S, req) ==
    SendResponse(S, req, TRUE,
                 [Body("stackFrames") EXCEPT !.line = S.tm.next_instruction], "")

handle_scopes(S, req) == SendResponse(S, req, TRUE, Body("scopes"), "")

\* A mutation of handle_variables: the cell is read with raw_dict[x] on a
\* dict that stores the default symbol for a missing key.
TapeGetInserting(raw_dict, x) ==
    [tape |-> [y \in DOMAIN raw_dict \cup {x} |->
                 IF y \in DOMAIN raw_dict THEN raw_dict[y] ELSE BLANK],
     sym |-> IF x \in DOMAIN raw_dict THEN raw_dict[x] ELSE BLANK]

\* raw_dict.get(x, BLANK): the symbol read, and the dict as the call
\* leaves it.
TapeGet(raw_dict, x) ==
    [tape |-> raw_dict,
     sym |-> IF x \in DOMAIN raw_dict THEN raw_dict[x] ELSE BLANK]

\* "".join(raw_dict.get(x, BLANK) for x in range(a, b)): the text as the
\* sequence of its characters, and the dict as the reads leave it.
RECURSIVE JoinCells(_, _, _)
JoinCells(raw_dict, a, b) ==
    IF a >= b THEN [tape |-> raw_dict, text |-> <<>>]
    ELSE LET g == TapeGet(raw_dict, a)
             r == JoinCells(g.tape, a + 1, b)
         IN  [tape |-> r.tape, text |-> <<g.sym>> \o r.text]

\* The body of handle_variables' loop over tm.heads: tape_display, and the
\* head as the rendering leaves it.
TapeDisplay(head) ==
    LET center == head.index
        left_ctx == JoinCells(head.tape, center - 5, center)
        curr_val == TapeGet(left_ctx.tape, center)
        right_ctx == JoinCells(curr_val.tape, center + 1, center + 6)
    IN  [head |-> [head EXCEPT !.tape = right_ctx.tape],
         value |-> left_ctx.text \o <<"[", curr_val.sym, "]">> \o right_ctx.text]

\* handle_variables: of the variables it lists, the model keeps the tape
\* displays.
handle_variables(S, req) ==
    LET shown == [i \in DOMAIN S.tm.heads |-> TapeDisplay(S.tm.heads[i])]
    IN  SendResponse(
            [S EXCEPT !.tm.heads = [i \in DOMAIN shown |-> shown[i].head]],
            req, TRUE,
            [Body("variables") EXCEPT
                !.tapes = [i \in DOMAIN shown |-> shown[i].value]],
            "")

handle_next(S, req) ==
    SendResponse([S EXCEPT !.step_granularity = "step", !.running = TRUE],
                 req, TRUE, NoMsg, "")

handle_stepIn(S, req) == handle_next(S, req)

\* A mutation of handle_continue: the granularity is set as handle_next
\* sets it.
handle_continueStepping(S, req) ==
    SendResponse([S EXCEPT !.step_granularity = "step", !.running = TRUE],
                 req, TRUE, NoMsg, "")

handle_continue(S, req) ==
    SendResponse([S EXCEPT !.step_granularity = "None", !.running = TRUE],
                 req, TRUE, NoMsg, "")

\* A mutation of handle_pause: running is left as it was.
handle_pauseKeepsRunning(S, req) ==
    LET S1 == SendResponse(S, req, TRUE, NoMsg, "")
    IN  Then(S1, SendEvent(S1, Stopped("pause")))

handle_pause(S, req) ==
    LET S1 == SendResponse([S EXCEPT !.running = FALSE], req, TRUE, NoMsg, "")
    IN  Then(S1, SendEvent(S1, Stopped("pause")))

\* A mutation of handle_disconnect: it returns instead of exiting.
handle_disconnectReturns(S, req) ==
    SendResponse([S EXCEPT !.running = FALSE], req, TRUE, NoMsg, "")

\* sys.exit(0) raises SystemExit.
handle_disconnect(S, req) ==
    LET S1 == SendResponse([S EXCEPT !.running = FALSE], req, TRUE, NoMsg, "")
    IN  Then(S1, Raise(S1, "SystemExit"))

handle_exceptionInfo(S, req) ==
    SendResponse(S, req, TRUE, Body("exceptionInfo"), "")

\* getattr(self, f"handle_{cmd}", None) and the call of the handler found.
Handler(S, req) ==
    CASE req.command = "initialize" -> handle_initialize(S, req)
      [] req.command = "launch" -> handle_launch(S, req)
      [] req.command = "setBreakpoints" -> handle_setBreakpoints(S, req)
      [] req.command = "configurationDone" -> handle_configurationDone(S, req)
      [] req.command = "threads" -> handle_threads(S, req)
      [] req.command = "stackTrace" -> handle_stackTrace(S, req)
      [] req.command = "scopes" -> handle_scopes(S, req)
      [] req.command = "variables" -> handle_variables(S, req)
      [] req.command = "next" -> handle_next(S, req)
      [] req.command = "stepIn" -> handle_stepIn(S, req)
      [] req.command = "continue" -> handle_continue(S, req)
      [] req.command = "pause" -> handle_pause(S, req)
      [] req.command = "disconnect" -> handle_disconnect(S, req)
      [] req.command = "exceptionInfo" -> handle_exceptionInfo(S, req)

\* A mutation of _handle_request: a command without handler is dropped.
NotImplementedSilent(S, req) == S

\* The else branch of _handle_request: no handle_<cmd> attribute.
NotImplemented(S, req) ==
    SendResponse(S, req, FALSE, NoMsg, "not implemented")

\* The try block of _handle_request.
TryHandle(S, req) ==
    IF req.json # "object" THEN Raise(S, "TypeError")
    ELSE IF req.type = Absent THEN Raise(S, "KeyError: type")
    ELSE IF req.type # "request" THEN S
    ELSE IF req.command = Absent THEN Raise(S, "KeyError: command")
    ELSE IF req.command \in Handlers THEN Handler(S, req)
    ELSE NotImplemented(S, req)

\* _handle_request: an Exception raised in the try block is answered with a
\* failure response carrying str(e); that _send_response reads req["seq"]
\* and req["command"] again, outside any try.
HandleRequest(S, req) ==
    LET R == TryHandle(S, req)
    IN  IF R.exc \in Caught
        THEN SendResponse([R EXCEPT !.exc = "none"], req, FALSE, NoMsg, R.exc)
        ELSE R

\* ------------------------------------------------------ execution controller

\* What one call of tm.step() followed by tm.peek() can do: step() raises,
\* peek() raises after step() went through, or both return and peek() leaves
\* the next instruction (none once the machine has run MaxSteps units).
EngineOutcomes(S) ==
    {[kind |-> k, next |-> NoInstr] : k \in {"step_raises", "peek_raises"}}
    \cup {[kind |-> "ok", next |-> n] :
            n \in (IF S.steps_count + 1 >= MaxSteps THEN {NoInstr}
                   ELSE Lines \cup {NoInstr})}

\* _print_halt_report: the report is one string, handed to print().
PrintHaltReport(S) == PrintStdout(S, "halt report")

\* A mutation of _step_machine: breakpoints are checked in every mode.
ChecksBreakpointsAlways(S) == TRUE

\* if self.step_granularity != "step"
ChecksBreakpoints(S) == S.step_granularity # "step"

\* A mutation of _step_machine: no line is a breakpoint.
BreakpointHitNever(S) == FALSE

\* self.breakpoints.get(current_line, False)
BreakpointHit(S) == S.tm.next_instruction \in S.breakpoints

\* A mutation of _step_machine: the except branch leaves running set.
StepFaultKeepsRunning(S) ==
    SendEvent(StderrWrite(S, "runtime error"), Stopped("exception"))

\* The except branch of _step_machine.
StepFault(S) ==
    SendEvent(StderrWrite([S EXCEPT !.running = FALSE], "runtime error"),
              Stopped("exception"))

\* A mutation of _step_machine: a completed single step is always reported
\* with reason "step".
AfterUnitAlwaysStep(S, has_next) ==
    IF S.step_granularity = "step"
    THEN SendEvent([S EXCEPT !.running = FALSE, !.step_granularity = "None"],
                   Stopped("step"))
    ELSE S

\* A mutation of _step_machine: a completed single step stops the session
\* without telling the client.
AfterUnitSilent(S, has_next) ==
    IF S.step_granularity = "step"
    THEN [S EXCEPT !.running = FALSE, !.step_granularity = "None"]
    ELSE S

\* "Handle Step Pause", after a unit that went through.
AfterUnit(S, has_next) ==
    IF S.step_granularity = "step"
    THEN SendEvent([S EXCEPT !.running = FALSE, !.step_granularity = "None"],
                   Stopped(IF has_next THEN "step" ELSE "pause"))
    ELSE S

\* The try block of _step_machine under engine outcome o: tm.step(),
\* steps_count += 1, has_next = tm.peek().  tm.units counts the calls of
\* tm.step(), tm.faults the exceptions the engine raised.
ExecuteUnit(S, o) ==
    LET called == [S EXCEPT !.tm.units = S.tm.units + 1]
        raised == [called EXCEPT !.tm.faults = S.tm.faults + 1]
    IN  CASE o.kind = "step_raises" -> StepFault(raised)
          [] o.kind = "peek_raises" ->
                StepFault([raised EXCEPT !.steps_count = S.steps_count + 1])
          [] o.kind = "ok" ->
                AfterUnit([called EXCEPT !.steps_count = S.steps_count + 1,
                                          !.tm.next_instruction = o.next],
                          o.next # NoInstr)

\* _step_machine.
StepMachineOp(S, o) ==
    IF S.tm.next_instruction = NoInstr
    THEN LET S1 == PrintHaltReport([S EXCEPT !.running = FALSE])
             S2 == SendEvent(S1, Event("terminated"))
         IN  SendEvent(S2, Event("exited"))
    ELSE IF ChecksBreakpoints(S) /\ BreakpointHit(S)
    THEN SendEvent([S EXCEPT !.running = FALSE], Stopped("breakpoint"))
    ELSE ExecuteUnit(S, o)

\* ------------------------------------------------------------------- state

VARIABLES
    client,           \* "any", "debug" or "tape": which frames the client
                      \* sends
    reader,           \* the reader thread: "reading" or "exited"
    nread,            \* frames the reader has decoded
    input_queue,      \* self.input_queue
    pc,               \* main thread: "get", "step", "exited", "crashed"
    running,          \* self.running
    step_granularity, \* self.step_granularity: "instruction", "step", "None"
    breakpoints,      \* keys of self.breakpoints
    steps_count,      \* self.steps_count
    seq,              \* self._seq
    wire,             \* messages written to the real stdout, in order
    tm,               \* the engine: next_instruction, units, faults, heads
    dispatched,       \* history: the dequeued frames, each with the part of
                      \* wire written while it was handled
    last              \* history: the main thread's last action and the
                      \* state it started from

vars ==
    <<client, reader, nread, input_queue, pc, running, step_granularity,
      breakpoints, steps_count, seq, wire, tm, dispatched, last>>

Session ==
    [running |-> running, step_granularity |-> step_granularity,
     breakpoints |-> breakpoints, steps_count |-> steps_count, seq |-> seq,
     wire |-> wire, tm |-> tm, exc |-> "none"]

Install(R) ==
    /\ running' = R.running
    /\ step_granularity' = R.step_granularity
    /\ breakpoints' = R.breakpoints
    /\ steps_count' = R.steps_count
    /\ seq' = R.seq
    /\ wire' = R.wire
    /\ tm' = R.tm

Snapshot(op) ==
    [op |-> op, running |-> running, step_granularity |-> step_granularity,
     breakpoints |-> breakpoints, steps_count |-> steps_count,
     line |-> tm.next_instruction, units |-> tm.units, faults |-> tm.faults,
     heads |-> tm.heads, sent |-> Len(wire), handled |-> Len(dispatched)]

\* The tapes the session works on: those of TapeSets for the client that
\* inspects tapes, one empty tape otherwise.  The model does not follow
\* what the engine's steps write.
InitialHeads == IF client = "tape" THEN TapeSets ELSE {<<BlankHead>>}

\* __init__: nothing sent, not running, granularity "instruction", no
\* breakpoints; tm.peek() has left the first instruction, or none (also
\* when it raised).
InitServer ==
    /\ reader = "reading"
    /\ nread = 0
    /\ input_queue = <<>>
    /\ pc = "get"
    /\ running = FALSE
    /\ step_granularity = "instruction"
    /\ breakpoints = {}
    /\ steps_count = 0
    /\ seq = 0
    /\ wire = <<>>
    /\ tm \in {[next_instruction |-> n, units |-> 0, faults |-> 0,
                 heads |-> h] :
                n \in Lines \cup {NoInstr}, h \in InitialHeads}
    /\ dispatched = <<>>
    /\ last = [op |-> "init", running |-> FALSE,
               step_granularity |-> "instruction", breakpoints |-> {},
               steps_count |-> 0, line |-> NoInstr, units |-> 0, faults |-> 0,
               heads |-> tm.heads, sent |-> 0, handled |-> 0]

Init == client = "any" /\ InitServer

InitTape == client = "tape" /\ InitServer

InitDebug == client = "debug" /\ InitServer

\* ----------------------------------------------------------- reader thread

Alive == pc \in {"get", "step"}

FramesLeft ==
    CASE client = "any" -> nread < MaxFrames
      [] client = "debug" -> nread < MaxDebugFrames
      [] client = "tape" -> nread < MaxTapeFrames

NextFrames ==
    CASE client = "any" -> AnyFrames(ClientSeq(nread + 1))
      [] client = "debug" -> DebugFrames(ClientSeq(nread + 1))
      [] client = "tape" -> TapeFrames(ClientSeq(nread + 1))

\* A mutation of _read_input_loop: the frame is put at the front of the
\* queue.
ReadFramePrepends ==
    /\ Alive
    /\ reader = "reading"
    /\ FramesLeft
    /\ \E f \in NextFrames : input_queue' = <<f>> \o input_queue
    /\ nread' = nread + 1
    /\ UNCHANGED <<client, reader, pc, running, step_granularity, breakpoints,
                   steps_count, seq, wire, tm, dispatched, last>>

\* _read_input_loop, one frame decoded: self.input_queue.put(json.loads(..)).
ReadFrame ==
    /\ Alive
    /\ reader = "reading"
    /\ FramesLeft
    /\ \E f \in NextFrames : input_queue' = Append(input_queue, f)
    /\ nread' = nread + 1
    /\ UNCHANGED <<client, reader, pc, running, step_granularity, breakpoints,
                   steps_count, seq, wire, tm, dispatched, last>>

\* _read_input_loop returns (end of stream) or breaks (a frame that does not
\* decode): the thread ends and nothing is put on the queue.
ReaderExit ==
    /\ Alive
    /\ reader = "reading"
    /\ reader' = "exited"
    /\ UNCHANGED <<client, nread, input_queue, pc, running, step_granularity,
                   breakpoints, steps_count, seq, wire, tm, dispatched, last>>

\* --------------------------------------------------------------- main loop

\* The interpreter prints the traceback of the exception that left
\* run_event_loop on sys.stderr, which is the DAPStderr: n write() calls.
RECURSIVE Traceback(_, _)
Traceback(S, n) ==
    IF n = 0 THEN S ELSE Traceback(StderrWrite(S, "traceback"), n - 1)

\* run_event_loop, lines 129-131 with a message on the queue: get() returns
\* it (blocking or not) and _handle_request handles it.  SystemExit ends the
\* process; any other exception that leaves _handle_request ends the main
\* thread, and with it the process (the reader is a daemon thread).
GetRequest ==
    /\ pc = "get"
    /\ input_queue # <<>>
    /\ LET req == Head(input_queue)
           R == HandleRequest(Session, req)
       IN  /\ input_queue' = Tail(input_queue)
           /\ dispatched' = Append(dispatched,
                                   [req |-> req, from |-> Len(wire),
                                    to |-> Len(R.wire)])
           /\ \/ /\ R.exc = "none"
                 /\ pc' = "step"
                 /\ Install(R)
              \/ /\ R.exc = "SystemExit"
                 /\ pc' = "exited"
                 /\ Install(R)
              \/ /\ R.exc \in Caught
                 /\ pc' = "crashed"
                 /\ \E n \in 1..MaxTraceWrites : Install(Traceback(R, n))
    /\ last' = Snapshot("get")
    /\ UNCHANGED <<client, reader, nread>>

\* A mutation of run_event_loop: the queue is polled without blocking in
\* every mode.
PollTimesOutAlways == TRUE

\* timeout = 0.0 if self.running else None: get() on an empty queue raises
\* queue.Empty when running and blocks otherwise.
PollTimesOut == running

\* run_event_loop, lines 129-133 with an empty queue while running:
\* get(timeout=0.0) raises queue.Empty.  (With an empty queue while not
\* running, get(timeout=None) blocks: no action.)
GetEmpty ==
    /\ pc = "get"
    /\ input_queue = <<>>
    /\ PollTimesOut
    /\ pc' = "step"
    /\ last' = Snapshot("empty")
    /\ UNCHANGED <<client, reader, nread, input_queue, running,
                   step_granularity, breakpoints, steps_count, seq, wire, tm,
                   dispatched>>

\* A mutation of run_event_loop: the machine is stepped in every cycle.
ShouldStepAlways == TRUE

\* if self.running
ShouldStep == running

\* run_event_loop, lines 135-136: self._step_machine().
StepMachine ==
    /\ pc = "step"
    /\ ShouldStep
    /\ \E o \in EngineOutcomes(Session) : Install(StepMachineOp(Session, o))
    /\ pc' = "get"
    /\ last' = Snapshot("step")
    /\ UNCHANGED <<client, reader, nread, input_queue, dispatched>>

\* run_event_loop, line 135 when not running: back to the top of the loop.
SkipStep ==
    /\ pc = "step"
    /\ ~ShouldStep
    /\ pc' = "get"
    /\ last' = Snapshot("skip")
    /\ UNCHANGED <<client, reader, nread, input_queue, running,
                   step_granularity, breakpoints, steps_count, seq, wire, tm,
                   dispatched>>

Next ==
    \/ ReadFrame
    \/ ReaderExit
    \/ GetRequest
    \/ GetEmpty
    \/ StepMachine
    \/ SkipStep

Spec == Init /\ [][Next]_vars

SpecDebug == InitDebug /\ [][Next]_vars

SpecTape == InitTape /\ [][Next]_vars

\* ------------------------------------------------------------- properties

\* The messages written by the main thread's last action.
NewMsgs == SubSeq(wire, last.sent + 1, Len(wire))

IsEvent(m, name) == m.type = "event" /\ m.event = name

IsStopped(m, reason) == IsEvent(m, "stopped") /\ m.reason = reason

\* The events on the wire, in order, each as <<event, reason or output>>.
EventsOf(w) ==
    LET F[i \in 0..Len(w)] ==
            IF i = 0 THEN <<>>
            ELSE IF w[i].type = "event"
                 THEN Append(F[i - 1],
                             <<w[i].event,
                               IF w[i].event = "output" THEN w[i].output
                               ELSE w[i].reason>>)
                 ELSE F[i - 1]
    IN  F[Len(w)]

\* The responses written while the d-th dequeued frame was handled.
ResponsesTo(d) ==
    {k \in (dispatched[d].from + 1)..dispatched[d].to : wire[k].type = "response"}

IsRequest(f) == f.json = "object" /\ f.type = "request"

\* C1: every message the server emits carries a seq strictly greater than
\* the seq of every message emitted before it.
C1_SeqStrictlyIncreasing ==
    \A i, j \in DOMAIN wire : i < j => wire[i].seq < wire[j].seq

\* C1 witness: a response, a stopped event and the output events of a halt
\* report have all been emitted.
C1_Witness ==
    /\ \E i \in DOMAIN wire : wire[i].type = "response"
    /\ \E i \in DOMAIN wire : IsEvent(wire[i], "stopped")
    /\ \E i \in DOMAIN wire : IsEvent(wire[i], "output") /\ wire[i].category = "stdout"
    /\ \E i \in DOMAIN wire : IsEvent(wire[i], "exited")

\* C2: every dequeued message of type request gets exactly one response,
\* whose request_seq is the request's seq; any other message gets none.
C2_ExactlyOneResponse ==
    \A d \in DOMAIN dispatched :
        IF IsRequest(dispatched[d].req)
        THEN /\ Cardinality(ResponsesTo(d)) = 1
             /\ \A k \in ResponsesTo(d) :
                    wire[k].request_seq = dispatched[d].req.seq
        ELSE ResponsesTo(d) = {}

\* C3: no exception leaves the dispatch step: the main loop survives every
\* dequeued message.
C3_DispatchNeverPropagates == pc # "crashed"

\* C4: in continuous mode the controller stops with stopped{breakpoint},
\* without executing the pending instruction, exactly when the pending
\* instruction's line is a breakpoint, and executes the instruction
\* otherwise; stopped{breakpoint} is never emitted for a line that is not a
\* breakpoint.
C4_BreakpointStopsContinuous ==
    /\ (last.op = "step" /\ last.step_granularity # "step" /\ last.line # NoInstr) =>
          IF last.line \in last.breakpoints
          THEN /\ tm.units = last.units
               /\ steps_count = last.steps_count
               /\ ~running
               /\ EventsOf(NewMsgs) = << <<"stopped", "breakpoint">> >>
          ELSE /\ tm.units = last.units + 1
               /\ \A i \in DOMAIN NewMsgs : ~IsStopped(NewMsgs[i], "breakpoint")
    /\ \A i \in DOMAIN NewMsgs :
          IsStopped(NewMsgs[i], "breakpoint") =>
              /\ last.op = "step"
              /\ last.line # NoInstr
              /\ last.line \in last.breakpoints

\* C4 witness: a continuous run executed a unit on a line without a
\* breakpoint and then stopped before the instruction of a breakpointed line.
C4_Witness ==
    /\ last.op = "step"
    /\ last.step_granularity = "None"
    /\ last.steps_count >= 1
    /\ last.line \in last.breakpoints
    /\ \E i \in DOMAIN NewMsgs : IsStopped(NewMsgs[i], "breakpoint")

\* The last dequeued frame, when the last action dequeued one.
LastReq == dispatched[Len(dispatched)].req

\* C5: a next or stepIn request makes the controller execute the pending
\* instruction in the same cycle whatever the breakpoints are, and a
\* single step never yields stopped{breakpoint}: a unit that goes through
\* yields stopped{step} when an instruction remains.
C5_SingleStepIgnoresBreakpoints ==
    /\ (/\ last.op = "get"
        /\ IsRequest(LastReq)
        /\ LastReq.command \in {"next", "stepIn"}
        /\ LastReq.seq # NoSeq) =>
          (pc = "step" /\ running /\ step_granularity = "step")
    /\ (last.op = "step" /\ last.step_granularity = "step" /\ last.line # NoInstr) =>
          /\ tm.units = last.units + 1
          /\ \A i \in DOMAIN NewMsgs : ~IsStopped(NewMsgs[i], "breakpoint")
          /\ (\A i \in DOMAIN NewMsgs : ~IsStopped(NewMsgs[i], "exception")) =>
                EventsOf(NewMsgs) =
                    << <<"stopped", IF tm.next_instruction # NoInstr
                                    THEN "step" ELSE "pause">> >>

\* C5 witness: a single step was taken from a breakpointed line onto a
\* breakpointed line and reported as stopped{step}.
C5_Witness ==
    /\ last.op = "step"
    /\ last.step_granularity = "step"
    /\ last.line \in last.breakpoints
    /\ tm.units = last.units + 1
    /\ tm.next_instruction \in breakpoints
    /\ EventsOf(NewMsgs) = << <<"stopped", "step">> >>

\* The places on the wire of the events of one name.
EventPlaces(name) == {i \in DOMAIN wire : IsEvent(wire[i], name)}

\* C6: over the whole session the server emits at most one terminated and
\* one exited event (the halt is terminal: a later continue or next emits no
\* further halt summary, terminated or exited event).
C6_HaltsOnce ==
    /\ Cardinality(EventPlaces("terminated")) <= 1
    /\ Cardinality(EventPlaces("exited")) <= 1
    /\ Cardinality({i \in DOMAIN wire :
                       IsEvent(wire[i], "output") /\ wire[i].output = "halt report"}) <= 1

\* The commands of the well-formed requests dequeued so far, in order.
CommandsDispatched == [d \in DOMAIN dispatched |-> dispatched[d].req.command]

\* C7: on a machine that halts after one unit, with no breakpoints, the
\* requests configurationDone, continue produce exactly the events
\* stopped{entry}, one output event holding the halt summary, terminated,
\* exited, in this order.
C7_HaltScenarioEvents ==
    (/\ CommandsDispatched = <<"configurationDone", "continue">>
     /\ \A d \in DOMAIN dispatched :
            IsRequest(dispatched[d].req) /\ dispatched[d].req.seq # NoSeq
     /\ steps_count = 1
     /\ tm.units = 1
     /\ tm.next_instruction = NoInstr
     /\ EventPlaces("exited") # {}) =>
        EventsOf(wire) = << <<"stopped", "entry">>, <<"output", "halt report">>,
                            <<"terminated", "">>, <<"exited", "">> >>

\* The successful response to the d-th dequeued frame, a setBreakpoints
\* request with a list of lines.
AnsweredBreakpoints(d) ==
    /\ IsRequest(dispatched[d].req)
    /\ dispatched[d].req.command = "setBreakpoints"
    /\ \E k \in ResponsesTo(d) : wire[k].success

\* The lines handle_setBreakpoints read from a request it answered.
LinesOf(req) ==
    IF req.arguments.shape = "lines" THEN req.arguments.lines ELSE <<>>

\* C8 as stated: the response to setBreakpoints lists one entry per distinct
\* line (duplicates collapsed), matching the stored set.
C8_ResponseCollapsesDuplicates ==
    \A d \in DOMAIN dispatched :
        AnsweredBreakpoints(d) =>
            \A k \in ResponsesTo(d) :
                Len(wire[k].breakpoints) = Cardinality(LineSet(LinesOf(dispatched[d].req)))

\* C8 amended: the stored breakpoint set collapses duplicated lines, while
\* the response lists one {verified, line} entry per element of the
\* request's lines, in the request's order, duplicates included.
C8_ResponseEchoesLines ==
    /\ \A d \in DOMAIN dispatched :
          AnsweredBreakpoints(d) =>
              \A k \in ResponsesTo(d) :
                  wire[k].breakpoints = LinesOf(dispatched[d].req)
    /\ (last.op = "get" /\ AnsweredBreakpoints(Len(dispatched))) =>
          breakpoints = LineSet(LinesOf(LastReq))

\* C8 witness: setBreakpoints with the lines [1, 1] was answered: one stored
\* breakpoint, two entries in the response.
C8_Witness ==
    /\ last.op = "get"
    /\ AnsweredBreakpoints(Len(dispatched))
    /\ LinesOf(LastReq) = <<1, 1>>
    /\ breakpoints = {1}
    /\ \E k \in ResponsesTo(Len(dispatched)) : Len(wire[k].breakpoints) = 2

\* The successfully answered setBreakpoints requests so far.
Answered == {d \in DOMAIN dispatched : AnsweredBreakpoints(d)}

\* C9: while the server lives, the breakpoint set is exactly the set of
\* lines of the most recent successfully answered setBreakpoints request,
\* and empty when there was none.
C9_BreakpointsReplacedWholesale ==
    pc # "crashed" =>
        IF Answered = {} THEN breakpoints = {}
        ELSE LET d == CHOOSE x \in Answered : \A y \in Answered : y <= x
             IN  breakpoints = LineSet(LinesOf(dispatched[d].req))

\* C9 witness: a setBreakpoints request that failed (no arguments) followed
\* an answered one and left its lines in place.
C9_Witness ==
    /\ Len(dispatched) = 2
    /\ AnsweredBreakpoints(1)
    /\ dispatched[2].req.command = "setBreakpoints"
    /\ IsRequest(dispatched[2].req)
    /\ ~AnsweredBreakpoints(2)
    /\ pc # "crashed"
    /\ breakpoints = {1}

\* C10: a cycle of the main loop is one poll of the queue (at most one
\* message taken; the poll returns empty-handed only while running) followed by one
\* call of _step_machine exactly when the session is running; that call
\* executes one engine unit, or none when it halts or stops at a breakpoint;
\* the engine is never stepped while the session is stopped.
C10_OneStepPerCycle ==
    /\ last.op \in {"get", "empty"} => pc # "get"
    /\ last.op \in {"init", "step", "skip"} => pc = "get"
    /\ last.op = "empty" => last.running
    /\ last.op = "get" => Len(dispatched) = last.handled + 1
    /\ last.op # "get" => Len(dispatched) = last.handled
    /\ last.op = "step" =>
          /\ last.running
          /\ tm.units = last.units +
                (IF \/ last.line = NoInstr
                    \/ (last.step_granularity # "step" /\ last.line \in last.breakpoints)
                 THEN 0 ELSE 1)
    /\ last.op = "skip" => ~last.running
    /\ last.op # "step" => tm.units = last.units /\ steps_count = last.steps_count
    /\ last.op \in {"empty", "skip"} => Len(wire) = last.sent

\* C10 witness: two cycles in a row each executed one engine unit, the
\* second after a poll that took no message (one request was dequeued in
\* all).
C10_Witness ==
    /\ last.op = "step"
    /\ Len(dispatched) = 1
    /\ last.units = 1
    /\ tm.units = 2
    /\ steps_count = 2

\* A dequeued frame that is a request carrying seq and command.
Answerable(f) == IsRequest(f) /\ f.seq # NoSeq /\ f.command # Absent

\* The dequeued frames handled after an engine fault was reported.
AfterFault ==
    {d \in DOMAIN dispatched :
        \E k \in 1..dispatched[d].from : IsStopped(wire[k], "exception")}

\* C11: when the engine raises during a step, in either running mode, the
\* session stops running and emits one stderr output event followed by
\* stopped{exception}, no terminated or exited event, and the main loop
\* goes on: every request dequeued afterwards is answered.
C11_FaultStopsAndSurvives ==
    /\ (last.op = "step" /\ tm.faults = last.faults + 1) =>
          /\ ~running
          /\ pc = "get"
          /\ Len(NewMsgs) = 2
          /\ IsEvent(NewMsgs[1], "output") /\ NewMsgs[1].category = "stderr"
          /\ IsStopped(NewMsgs[2], "exception")
    /\ last.op # "step" => tm.faults = last.faults
    /\ \A d \in AfterFault :
          Answerable(dispatched[d].req) => Cardinality(ResponsesTo(d)) = 1

\* C11 witness: the engine raised during a step started by next or
\* continue, and a request dequeued afterwards was answered.
C11_Witness ==
    /\ tm.faults = 1
    /\ \E d \in AfterFault :
          /\ dispatched[d].req.command \in {"variables", "continue", "threads"}
          /\ Cardinality(ResponsesTo(d)) = 1
    /\ \E k \in DOMAIN wire : IsStopped(wire[k], "exception")
    /\ dispatched[1].req.command \in {"next", "continue"}

\* The dequeued frames that are disconnect requests carrying a seq.
Disconnects ==
    {d \in DOMAIN dispatched :
        /\ Answerable(dispatched[d].req)
        /\ dispatched[d].req.command = "disconnect"}

\* C12: a disconnect request, in any run mode, clears the running flag, is
\* answered with a success response and ends the process at once: the
\* response is the last message on the wire, the disconnect is the last
\* frame dispatched, and no engine unit is executed after it.
C12_DisconnectEndsProcess ==
    /\ \A d \in Disconnects :
          /\ pc = "exited"
          /\ ~running
          /\ d = Len(dispatched)
          /\ last.op = "get"
          /\ tm.units = last.units
          /\ steps_count = last.steps_count
          /\ dispatched[d].to = Len(wire)
          /\ dispatched[d].to = dispatched[d].from + 1
          /\ wire[Len(wire)].type = "response"
          /\ wire[Len(wire)].success
          /\ wire[Len(wire)].command = "disconnect"
          /\ wire[Len(wire)].request_seq = dispatched[d].req.seq
    /\ pc = "exited" => Disconnects # {}
    /\ pc = "exited" => ~ENABLED Next

\* C12 witness: the process has exited on a disconnect that was dequeued
\* while the session was running in continuous mode, after a unit had been
\* executed.
C12_Witness ==
    /\ pc = "exited"
    /\ last.running
    /\ last.step_granularity = "None"
    /\ last.units = 1
    /\ Disconnects # {}

\* The frames the reader has decoded, in the order the main loop takes them:
\* those dispatched, then those still queued.
Arrived ==
    [k \in 1..(Len(dispatched) + Len(input_queue)) |->
        IF k <= Len(dispatched) THEN dispatched[k].req
        ELSE input_queue[k - Len(dispatched)]]

\* A step keeps the frames decoded so far in their order, adding at most
\* the frame the reader decodes at the end; a reader that has exited stays
\* exited and puts nothing more on the queue; a step of the reader leaves
\* the session, the wire, the engine and the main loop as they were.
ArrivalStep ==
    /\ \/ Arrived' = Arrived
       \/ /\ reader = "reading"
          /\ nread' = nread + 1
          /\ \E f \in NextFrames : Arrived' = Append(Arrived, f)
    /\ reader = "exited" =>
          /\ reader' = "exited"
          /\ nread' = nread
          /\ Len(input_queue') <= Len(input_queue)
    /\ (nread' # nread \/ reader' # reader) =>
          UNCHANGED <<pc, running, step_granularity, breakpoints, steps_count,
                      seq, wire, tm, dispatched, last>>
    /\ dispatched' # dispatched =>
          /\ input_queue # <<>>
          /\ Len(dispatched') = Len(dispatched) + 1
          /\ dispatched'[Len(dispatched')].req = Head(input_queue)
          /\ input_queue' = Tail(input_queue)

Drained == reader = "exited" /\ input_queue = <<>> /\ Alive

\* What the events of w tell the client about a stop: the reasons of its
\* stopped events, and "terminated" for a terminated event.
StopsTold(w) ==
    {w[i].reason : i \in {j \in DOMAIN w : IsEvent(w[j], "stopped")}}
    \cup {"terminated" : i \in {j \in DOMAIN w : IsEvent(w[j], "terminated")}}

\* A step taken once the reader has exited and the queue is drained: the
\* process stays alive, no frame is dispatched, the queue stays empty, a
\* stopped session does nothing to engine or wire and is not set running,
\* and a running session that stops tells the client one of told.
DrainedStep(told) ==
    Drained =>
        /\ Drained'
        /\ dispatched' = dispatched
        /\ ~running => (~running' /\ wire' = wire /\ tm' = tm)
        /\ (running /\ ~running') =>
              /\ StopsTold(SubSeq(wire', Len(wire) + 1, Len(wire'))) # {}
              /\ StopsTold(SubSeq(wire', Len(wire) + 1, Len(wire'))) \subseteq told

\* Drained and stopped: the main loop is in get() with no timeout, and
\* nothing in the program can take a step; drained and running: the main
\* loop can always take its next step.
DrainedBlocks ==
    /\ (Drained /\ ~running /\ pc = "get") => ~ENABLED Next
    /\ (Drained /\ running) => ENABLED (GetEmpty \/ StepMachine)

\* C14 as stated: once the reader has stopped and the queue is drained, a
\* stopped session blocks forever, and a running session keeps stepping,
\* seeing no request, until it stops by breakpoint, fault or halt, and then
\* blocks forever.
C14_DrainedStopsByBreakpointFaultHalt ==
    /\ []DrainedBlocks
    /\ [][DrainedStep({"breakpoint", "exception", "terminated"})]_vars

\* C14 amended: the same, where a running session may also stop because
\* the single step it was running has completed (stopped{step} or
\* stopped{pause}).
C14_DrainedSessionBlocks ==
    /\ []DrainedBlocks
    /\ [][DrainedStep({"breakpoint", "exception", "terminated", "step",
                       "pause"})]_vars

\* C14 witness: with the reader gone and the queue empty, a session that
\* executed two units on a single request has stopped and sits in the
\* blocking get().
C14_Witness ==
    /\ Drained
    /\ pc = "get"
    /\ ~running
    /\ last.op = "step"
    /\ last.running
    /\ Len(dispatched) = 1
    /\ tm.units = 2

\* The main thread's last action dispatched a request, carrying a seq, of
\* one of the commands cmds.
JustDispatched(cmds) ==
    /\ last.op = "get"
    /\ Answerable(LastReq)
    /\ LastReq.command \in cmds

\* C15: a next or stepIn request gets its acknowledgement and sets the
\* session running in single-step mode; the _step_machine call of the same
\* iteration, when an instruction is pending and the engine does not raise,
\* executes exactly one unit (steps_count grows by 1), stops the session and
\* emits exactly one message, a stopped event with reason "step" if an
\* instruction remains and "pause" otherwise.
C15_SingleStepOneUnit ==
    /\ JustDispatched({"next", "stepIn"}) =>
          /\ pc = "step" /\ running /\ step_granularity = "step"
          /\ Len(NewMsgs) = 1
          /\ NewMsgs[1].type = "response" /\ NewMsgs[1].success
          /\ tm.units = last.units
    /\ (/\ last.op = "step"
        /\ last.step_granularity = "step"
        /\ last.line # NoInstr
        /\ tm.faults = last.faults) =>
          /\ last.handled = Len(dispatched)
          /\ LastReq.command \in {"next", "stepIn"}
          /\ dispatched[Len(dispatched)].to = last.sent
          /\ tm.units = last.units + 1
          /\ steps_count = last.steps_count + 1
          /\ ~running
          /\ pc = "get"
          /\ Len(NewMsgs) = 1
          /\ IsStopped(NewMsgs[1],
                       IF tm.next_instruction # NoInstr THEN "step" ELSE "pause")

\* C15 witness: a stepIn executed the last instruction of the machine and
\* was reported as stopped{pause}.
C15_Witness ==
    /\ last.op = "step"
    /\ last.step_granularity = "step"
    /\ last.line # NoInstr
    /\ LastReq.command = "stepIn"
    /\ steps_count = last.steps_count + 1
    /\ tm.next_instruction = NoInstr
    /\ IsStopped(NewMsgs[1], "pause")

\* C16: a pause request dequeued while the session runs continuously is
\* taken between two engine units: it clears running and emits its
\* acknowledgement followed by stopped{pause}, executing no unit; and the
\* engine is stepped again only after a continue, next or stepIn request
\* has set the session running (running is set by no other action, and a
\* unit is executed only by a step action of a running session).
C16_PauseBetweenUnits ==
    /\ JustDispatched({"pause"}) =>
          /\ ~running
          /\ pc = "step"
          /\ tm.units = last.units
          /\ tm.faults = last.faults
          /\ tm.next_instruction = last.line
          /\ steps_count = last.steps_count
          /\ Len(NewMsgs) = 2
          /\ NewMsgs[1].type = "response" /\ NewMsgs[1].success
          /\ NewMsgs[1].command = "pause"
          /\ NewMsgs[1].request_seq = LastReq.seq
          /\ IsStopped(NewMsgs[2], "pause")
    /\ (running /\ ~last.running) =>
          /\ last.op = "get"
          /\ IsRequest(LastReq)
          /\ LastReq.command \in {"continue", "next", "stepIn"}
    /\ tm.units # last.units => (last.op = "step" /\ last.running)

\* C16 witness: a pause was dequeued in a continuous run that had executed
\* a unit and had an instruction pending; the session is stopped with the
\* instruction still pending.
C16_Witness ==
    /\ JustDispatched({"pause"})
    /\ last.running
    /\ last.step_granularity = "None"
    /\ last.units = 1
    /\ last.line # NoInstr
    /\ ~running
    /\ tm.units = 1

\* The dequeued frames that are requests, carrying a seq, of a command
\* without handler.
UnknownCommands ==
    {d \in DOMAIN dispatched :
        /\ Answerable(dispatched[d].req)
        /\ dispatched[d].req.command \notin Handlers}

\* C17: a request whose command has no handler is answered with one
\* failure response carrying the "not implemented" message and changes
\* nothing else: running, step granularity, breakpoints, steps_count and
\* the engine are as before, and the main loop goes on; the requests
\* dequeued after it are each answered once.
C17_UnknownCommandHarmless ==
    /\ (last.op = "get" /\ Len(dispatched) \in UnknownCommands) =>
          /\ pc = "step"
          /\ running = last.running
          /\ step_granularity = last.step_granularity
          /\ breakpoints = last.breakpoints
          /\ steps_count = last.steps_count
          /\ tm.next_instruction = last.line
          /\ tm.units = last.units
          /\ tm.faults = last.faults
          /\ Len(NewMsgs) = 1
          /\ NewMsgs[1].type = "response"
          /\ ~NewMsgs[1].success
          /\ NewMsgs[1].message = "not implemented"
          /\ NewMsgs[1].command = LastReq.command
          /\ NewMsgs[1].request_seq = LastReq.seq
    /\ \A d \in UnknownCommands : \A e \in DOMAIN dispatched :
          (e > d /\ Answerable(dispatched[e].req)) =>
              /\ Cardinality(ResponsesTo(e)) = 1
              /\ \A k \in ResponsesTo(e) :
                    wire[k].request_seq = dispatched[e].req.seq
              /\ dispatched[e].req.command \in {"next", "stepIn", "continue"} =>
                    \A k \in ResponsesTo(e) : wire[k].success

\* C17 witness: an unknown command was answered during a continuous run,
\* which then executed a further unit.
C17_Witness ==
    /\ 2 \in UnknownCommands
    /\ dispatched[1].req.command = "continue"
    /\ last.op = "step"
    /\ last.running
    /\ tm.units = last.units + 1
    /\ \E k \in ResponsesTo(2) : wire[k].message = "not implemented"

\* The dequeued frames that are variables requests carrying a seq.
VariablesRequests ==
    {d \in DOMAIN dispatched :
        /\ Answerable(dispatched[d].req)
        /\ dispatched[d].req.command = "variables"}

\* The symbol of cell x of a head's tape: the one the tape holds, the
\* default symbol when it holds none.
CellOf(head, x) == IF x \in DOMAIN head.tape THEN head.tape[x] ELSE BLANK

\* Four default symbols, 'a', '[b]', five default symbols.
ExampleDisplay ==
    <<BLANK, BLANK, BLANK, BLANK, "a", "[", "b", "]",
      BLANK, BLANK, BLANK, BLANK, BLANK>>

\* v is the window on head h: the five cells left of the head, the head
\* cell in brackets, the five cells right of it.
IsWindow(v, h) ==
    /\ Len(v) = 13
    /\ \A j \in 1..5 : v[j] = CellOf(h, h.index - 6 + j)
    /\ v[6] = "["
    /\ v[7] = CellOf(h, h.index)
    /\ v[8] = "]"
    /\ \A j \in 1..5 : v[8 + j] = CellOf(h, h.index + j)

\* C18: the response to a variables request shows every tape as the window
\* of the five cells left of the head, the head cell in brackets and the
\* five cells right of the head, with the default symbol for the cells the
\* tape does not hold (the example tape gives four default symbols, 'a',
\* '[b]', five default symbols); and the request changes neither the tapes'
\* cells nor the head positions, steps_count, the run mode or anything else
\* of the session.
C18_TapeWindowReadOnly ==
    /\ \A d \in VariablesRequests :
          /\ Cardinality(ResponsesTo(d)) = 1
          /\ \A k \in ResponsesTo(d) :
                /\ wire[k].success
                /\ Len(wire[k].tapes) = Len(tm.heads)
                /\ \A i \in DOMAIN tm.heads :
                      /\ IsWindow(wire[k].tapes[i], tm.heads[i])
                      /\ tm.heads[i] = ExampleHead =>
                            wire[k].tapes[i] = ExampleDisplay
    /\ JustDispatched({"variables"}) =>
          /\ tm.heads = last.heads
          /\ tm.next_instruction = last.line
          /\ tm.units = last.units
          /\ steps_count = last.steps_count
          /\ running = last.running
          /\ step_granularity = last.step_granularity
          /\ breakpoints = last.breakpoints

\* C18 witness: a variables request dequeued during a continuous run was
\* answered with the example tape's window, and with the window of a second
\* tape whose only cell lies five cells right of its head.
C18_Witness ==
    /\ JustDispatched({"variables"})
    /\ last.running
    /\ Len(tm.heads) = 2
    /\ tm.heads[1] = ExampleHead
    /\ NewMsgs[1].tapes[1] = ExampleDisplay
    /\ tm.heads[2].index = 1
    /\ DOMAIN tm.heads[2].tape = {6}
    /\ NewMsgs[1].tapes[2][13] = "b"

\* C19: a continue request sets the session running in continuous mode
\* without touching the engine, and a _step_machine call in continuous mode
\* on a pending instruction whose line is a breakpoint executes nothing:
\* the same instruction stays pending, steps_count is unchanged, the
\* session stops and stopped{breakpoint} is the one message emitted, as
\* often as continue is repeated.  A unit is executed only in single-step
\* mode, which only next and stepIn set, or on a line that is not a
\* breakpoint, and only setBreakpoints changes the breakpoints.
C19_ContinueStaysAtBreakpoint ==
    /\ JustDispatched({"continue"}) =>
          /\ pc = "step" /\ running /\ step_granularity = "None"
          /\ tm.units = last.units
          /\ tm.next_instruction = last.line
          /\ breakpoints = last.breakpoints
    /\ (/\ last.op = "step"
        /\ last.step_granularity = "None"
        /\ last.line # NoInstr
        /\ last.line \in last.breakpoints) =>
          /\ tm.units = last.units
          /\ tm.next_instruction = last.line
          /\ steps_count = last.steps_count
          /\ breakpoints = last.breakpoints
          /\ ~running
          /\ pc = "get"
          /\ Len(NewMsgs) = 1
          /\ IsStopped(NewMsgs[1], "breakpoint")
    /\ tm.units # last.units =>
          /\ last.op = "step"
          /\ last.step_granularity = "step" \/ last.line \notin last.breakpoints
    /\ (step_granularity = "step" /\ last.step_granularity # "step") =>
          /\ last.op = "get"
          /\ IsRequest(LastReq)
          /\ LastReq.command \in {"next", "stepIn"}
    /\ breakpoints # last.breakpoints =>
          /\ last.op = "get"
          /\ IsRequest(LastReq)
          /\ LastReq.command = "setBreakpoints"

\* C19 witness: with a breakpoint on the line of the first instruction,
\* two continue requests in a row each ended in stopped{breakpoint}, and no
\* unit has been executed.
C19_Witness ==
    /\ CommandsDispatched = <<"setBreakpoints", "continue", "continue">>
    /\ last.op = "step"
    /\ Cardinality({k \in DOMAIN wire : IsStopped(wire[k], "breakpoint")}) = 2
    /\ IsStopped(wire[Len(wire)], "breakpoint")
    /\ steps_count = 0
    /\ tm.units = 0
    /\ tm.next_instruction \in breakpoints

\* The places in w of the events of one name.
PlacesIn(w, name) == {i \in DOMAIN w : IsEvent(w[i], name)}

\* w tells the client of a stop: it holds exactly one stopped event, of
\* reason breakpoint, step, pause or exception, and neither terminated nor
\* exited; or no stopped event and exactly one terminated followed by
\* exactly one exited.
TellsStop(w) ==
    \/ /\ Cardinality(PlacesIn(w, "stopped")) = 1
       /\ \A i \in PlacesIn(w, "stopped") :
             w[i].reason \in {"breakpoint", "step", "pause", "exception"}
       /\ PlacesIn(w, "terminated") = {}
       /\ PlacesIn(w, "exited") = {}
    \/ /\ PlacesIn(w, "stopped") = {}
       /\ Cardinality(PlacesIn(w, "terminated")) = 1
       /\ Cardinality(PlacesIn(w, "exited")) = 1
       /\ \A i \in PlacesIn(w, "terminated") :
             \A j \in PlacesIn(w, "exited") : i < j

\* The dequeued requests that set the session running.
RunRequests ==
    {d \in DOMAIN dispatched :
        /\ Answerable(dispatched[d].req)
        /\ dispatched[d].req.command \in {"continue", "next", "stepIn"}}

\* C20: while the process lives, an action of the main thread that finds
\* the session running and leaves it not running (a dispatched request
\* other than disconnect, or a _step_machine call) tells the client of the
\* stop in the messages it emits; so a session that sits stopped at the
\* queue pop after a continue, next or stepIn has emitted a stopped or a
\* terminated event since the acknowledgement of the last of them.
C20_StopAlwaysTold ==
    /\ (Alive /\ last.running /\ ~running) => TellsStop(NewMsgs)
    /\ (pc = "get" /\ ~running) =>
          \A d \in RunRequests :
              \E k \in (dispatched[d].to + 1)..Len(wire) :
                  IsEvent(wire[k], "stopped") \/ IsEvent(wire[k], "terminated")

\* C20 witness: a continuous run that had executed a unit found the
\* machine halted: the session left running with the terminated/exited
\* pair and sits at the queue pop.
C20_Witness ==
    /\ last.op = "step"
    /\ last.running
    /\ last.units = 1
    /\ ~running
    /\ pc = "get"
    /\ RunRequests # {}
    /\ PlacesIn(NewMsgs, "terminated") # {}
    /\ PlacesIn(NewMsgs, "exited") # {}

====
